---- MODULE Spec2Model ----
(***************************************************************************)
(* Model of the rainfall dashboard backend (src/main.py): the rainfall     *)
(* classifier, the name normalizers, the daily and hourly processors and   *)
(* the two JSON endpoints that call them.                                  *)
(*                                                                         *)
(* A DataFrame is a record [cols, rows]: cols is the sequence of column    *)
(* names, rows a sequence of rows, each row a sequence of cells aligned    *)
(* with cols.  A cell is a number (an exact rational n/d), a text, or the  *)
(* missing value NaN.  A Python call either returns a value or raises;     *)
(* the outcome is a record whose kind is "ok", "error" or "raise".         *)
(***************************************************************************)
EXTENDS Integers, Sequences, FiniteSets, TLC

VARIABLES pc, op, arg, df, ret, resp

vars == <<pc, op, arg, df, ret, resp>>

----------------------------------------------------------------------------
(* Cells *)

Num(n, d) == [k |-> "num", n |-> n, d |-> d, s |-> ""]

Str(s) == [k |-> "str", n |-> 0, d |-> 1, s |-> s]

NaN == [k |-> "nan", n |-> 0, d |-> 1, s |-> ""]

IsNum(c) == c.k = "num"

IsStr(c) == c.k = "str"

\* pd.isna
isna(c) == c.k = "nan"

\* a <= b and a < b on numeric cells (denominators are positive)
Le(a, b) == a.n * b.d <= b.n * a.d

Lt(a, b) == a.n * b.d < b.n * a.d

Add(a, b) == Num(a.n * b.d + b.n * a.d, a.d * b.d)

----------------------------------------------------------------------------
(* Rainfall category logic *)

ordered_categories ==
    << "No Rain", "Very Light", "Light", "Moderate", "Rather Heavy",
       "Heavy", "Very Heavy", "Extremely Heavy", "Exceptional" >>

\* classify_rainfall with the 2.4 bound taken as exclusive
classify_rainfall_exclusive(rainfall) ==
    IF isna(rainfall) THEN "No Rain"
    ELSE IF IsStr(rainfall) THEN "TypeError"
    ELSE IF rainfall.n = 0 THEN "No Rain"
    ELSE IF Lt(Num(0, 1), rainfall) /\ Lt(rainfall, Num(24, 10)) THEN "Very Light"
    ELSE IF Le(rainfall, Num(75, 10)) THEN "Light"
    ELSE IF Le(rainfall, Num(355, 10)) THEN "Moderate"
    ELSE IF Le(rainfall, Num(644, 10)) THEN "Rather Heavy"
    ELSE IF Le(rainfall, Num(1244, 10)) THEN "Heavy"
    ELSE IF Le(rainfall, Num(2444, 10)) THEN "Very Heavy"
    ELSE IF Le(rainfall, Num(350, 1)) THEN "Extremely Heavy"
    ELSE "Exceptional"

\* classify_rainfall: the if/elif chain, branch by branch.  A text argument
\* passes pd.isna and == 0 and fails at the first ordering comparison.
classify_rainfall(rainfall) ==
    IF isna(rainfall) THEN "No Rain"
    ELSE IF IsStr(rainfall) THEN "TypeError"
    ELSE IF rainfall.n = 0 THEN "No Rain"
    ELSE IF Lt(Num(0, 1), rainfall) /\ Le(rainfall, Num(24, 10)) THEN "Very Light"
    ELSE IF Le(rainfall, Num(75, 10)) THEN "Light"
    ELSE IF Le(rainfall, Num(355, 10)) THEN "Moderate"
    ELSE IF Le(rainfall, Num(644, 10)) THEN "Rather Heavy"
    ELSE IF Le(rainfall, Num(1244, 10)) THEN "Heavy"
    ELSE IF Le(rainfall, Num(2444, 10)) THEN "Very Heavy"
    ELSE IF Le(rainfall, Num(350, 1)) THEN "Extremely Heavy"
    ELSE "Exceptional"

----------------------------------------------------------------------------
(* Text helpers.  Texts are TLA+ strings; the operations on characters     *)
(* (strip, substring test, numeric parsing, ordering) are tabulated over   *)
(* the texts that occur in the model.                                      *)

Range(f) == { f[i] : i \in DOMAIN f }

\* str.strip(): the texts of the model that carry surrounding blanks
Padded ==
    ("Kachchh " :> "Kachchh") @@ (" Kutch" :> "Kutch") @@ (" Taluka" :> "Taluka")
    @@ ("06TO08 " :> "06TO08")

strip(s) == IF s \in DOMAIN Padded THEN Padded[s] ELSE s

\* pd.to_numeric(..., errors='coerce') on one cell: a number stays, a text
\* that spells a number becomes that number, any other text becomes NaN.
NumericText == ("7" :> Num(7, 1)) @@ ("2.4" :> Num(24, 10)) @@ ("0" :> Num(0, 1))

to_numeric(c) ==
    IF IsStr(c)
    THEN IF c.s \in DOMAIN NumericText THEN NumericText[c.s] ELSE NaN
    ELSE c

\* Python's ordering of the texts of the model (sorted(), groupby keys)
TextOrder ==
    << " Kutch", "Anjar", "Dang", "Dangs", "Kachchh", "Kachchh ", "Kutch",
       "Morbi", "Morvi", "N/A", "nan" >>

TextRank(s) == CHOOSE i \in 1..Len(TextOrder) : TextOrder[i] = s

----------------------------------------------------------------------------
(* DataFrame helpers *)

EmptyFrame == [cols |-> <<>>, rows |-> <<>>]

\* df.empty
empty(t) == Len(t.cols) = 0 \/ Len(t.rows) = 0

HasCol(t, c) == \E i \in 1..Len(t.cols) : t.cols[i] = c

ColIdx(t, c) ==
    CHOOSE i \in 1..Len(t.cols) :
        t.cols[i] = c /\ \A j \in 1..(i - 1) : t.cols[j] # c

\* df[c] as a sequence of cells, one per row
Col(t, c) == [r \in 1..Len(t.rows) |-> t.rows[r][ColIdx(t, c)]]

\* df[c] = vals: overwrite the column, or append it as the last column
SetCol(t, c, vals) ==
    IF HasCol(t, c)
    THEN [t EXCEPT !.rows =
            [r \in 1..Len(t.rows) |-> [t.rows[r] EXCEPT ![ColIdx(t, c)] = vals[r]]]]
    ELSE [cols |-> Append(t.cols, c),
          rows |-> [r \in 1..Len(t.rows) |-> Append(t.rows[r], vals[r])]]

\* df.rename(columns={old: new}, inplace=True)
Rename(t, old, new) ==
    [t EXCEPT !.cols = [i \in 1..Len(t.cols) |-> IF t.cols[i] = old THEN new ELSE t.cols[i]]]

\* Series.replace(mapping): a text cell equal to a key becomes its value
replace(vals, mapping) ==
    [r \in 1..Len(vals) |->
        IF IsStr(vals[r]) /\ vals[r].s \in DOMAIN mapping
        THEN Str(mapping[vals[r].s]) ELSE vals[r]]

\* one row as a dict over the given columns (to_dict)
RowDict(t, r, cs) == [c \in cs |-> t.rows[r][ColIdx(t, c)]]

----------------------------------------------------------------------------
(* Name normalization.  A call yields [exc, df]: exc is "" on return, or   *)
(* the exception raised; df is the caller's table after the call.          *)

taluka_name_mapping ==
    ("Morbi" :> "Morvi") @@ ("Ahmedabad City" :> "Ahmadabad City")
    @@ ("Maliya Hatina" :> "Malia") @@ ("Shihor" :> "Sihor")
    @@ ("Dwarka" :> "Okhamandal") @@ ("Kalol(Gnr)" :> "Kalol")

district_name_mapping ==
    ("Chhota Udepur" :> "Chhota Udaipur") @@ ("Dangs" :> "Dang")
    @@ ("Kachchh" :> "Kutch") @@ ("Mahesana" :> "Mehsana")

correct_taluka_names(t) ==
    IF ~HasCol(t, "Taluka")
    THEN [exc |-> "KeyError", df |-> t]
    ELSE [exc |-> "", df |-> SetCol(t, "Taluka", replace(Col(t, "Taluka"), taluka_name_mapping))]

correct_district_names(t) ==
    IF ~HasCol(t, "District")
    THEN [exc |-> "KeyError", df |-> t]
    ELSE [exc |-> "", df |-> SetCol(t, "District", replace(Col(t, "District"), district_name_mapping))]

----------------------------------------------------------------------------
(* Column arithmetic and ordering *)

HasText(vals) == \E r \in 1..Len(vals) : IsStr(vals[r])

\* the rows whose cell is a number, in row order
Valid(vals) == { r \in 1..Len(vals) : IsNum(vals[r]) }

RECURSIVE SumTo(_, _)
\* sum of the numeric cells among the first i, missing cells skipped
SumTo(vals, i) ==
    IF i = 0 THEN Num(0, 1)
    ELSE IF IsNum(vals[i]) THEN Add(SumTo(vals, i - 1), vals[i])
    ELSE SumTo(vals, i - 1)

\* Series.mean(): missing cells skipped, NaN when nothing is left
mean(vals) ==
    IF Valid(vals) = {} THEN NaN
    ELSE LET total == SumTo(vals, Len(vals))
         IN Num(total.n, total.d * Cardinality(Valid(vals)))

\* Series.isnull().all()
all_null(vals) == Valid(vals) = {}

\* Series.idxmax(): the first row holding the greatest number
idxmax(vals) ==
    CHOOSE r \in Valid(vals) :
        /\ \A q \in Valid(vals) : Le(vals[q], vals[r])
        /\ \A q \in Valid(vals) : q < r => Lt(vals[q], vals[r])

\* sort_values(ascending=False) as the sequence of row numbers: numbers in
\* descending order, equal numbers in row order, missing cells last in row
\* order.
sort_desc(vals) ==
    LET n == Len(vals)
        before(q, r) ==
            \/ IsNum(vals[q]) /\ ~IsNum(vals[r])
            \/ IsNum(vals[q]) /\ IsNum(vals[r]) /\ Lt(vals[r], vals[q])
            \/ IsNum(vals[q]) /\ IsNum(vals[r]) /\ ~Lt(vals[q], vals[r]) /\ q < r
            \/ ~IsNum(vals[q]) /\ ~IsNum(vals[r]) /\ q < r
        pos(r) == 1 + Cardinality({ q \in 1..n : before(q, r) })
    IN [p \in 1..n |-> CHOOSE r \in 1..n : pos(r) = p]

\* float(f"{x:.1f}"): round to one decimal, ties to even
round1(x) ==
    LET lo == (10 * x.n) \div x.d
        rem == (10 * x.n) % x.d
        k == IF 2 * rem < x.d THEN lo
             ELSE IF 2 * rem > x.d THEN lo + 1
             ELSE IF lo % 2 = 0 THEN lo ELSE lo + 1
    IN Num(k, 10)

\* .head(n) of a sequence
head(seq, n) == IF Len(seq) <= n THEN seq ELSE SubSeq(seq, 1, n)

\* the sequence seq restricted to the members of keep, order kept
RECURSIVE Filter(_, _)
Filter(seq, keep) ==
    IF Len(seq) = 0 THEN <<>>
    ELSE IF seq[1] \in keep THEN <<seq[1]>> \o Filter(Tail(seq), keep)
    ELSE Filter(Tail(seq), keep)

\* the cells of vals at the row numbers listed in rs
Pick(vals, rs) == [i \in 1..Len(rs) |-> vals[rs[i]]]

\* the distinct texts of a column in Python's string order (groupby keys,
\* sorted(unique()))
sorted_texts(vals) ==
    LET names == { vals[r].s : r \in 1..Len(vals) }
        pos(s) == 1 + Cardinality({ u \in names : TextRank(u) < TextRank(s) })
    IN [p \in 1..Cardinality(names) |-> CHOOSE s \in names : pos(s) = p]

----------------------------------------------------------------------------
(* Daily processor.  A call yields [exc, value, df]: exc is "" on return   *)
(* or the exception raised, value the returned dict (a function from keys  *)
(* to values), df the caller's table after the call.                       *)

NoValue == [none |-> TRUE]

required_cols == << "Total_mm", "Taluka", "District" >>

TOTAL_TALUKAS_GUJARAT == 251

total_seasonal_avg_state == 850

TopRows == 10

\* Series * 1.5 and Series / 700 * 100, cell by cell (texts excluded by the
\* caller: they raise TypeError)
times_1_5(vals) ==
    [r \in 1..Len(vals) |-> IF IsNum(vals[r]) THEN Num(3 * vals[r].n, 2 * vals[r].d) ELSE NaN]

percent_of_700(vals) ==
    [r \in 1..Len(vals) |-> IF IsNum(vals[r]) THEN Num(100 * vals[r].n, 700 * vals[r].d) ELSE NaN]

coerce(t, c) == SetCol(t, c, [r \in 1..Len(t.rows) |-> to_numeric(Col(t, c)[r])])

\* .astype(str).str.strip() on one cell (a missing cell prints as "nan")
str_strip(c) == IF IsStr(c) THEN Str(strip(c.s)) ELSE Str("nan")

\* the output dict built from the prepared table d (lines 134-185)
daily_output(d) ==
    LET mm == Col(d, "Total_mm")
        tr == Col(d, "Total_Rainfall")
        n == Len(d.rows)
        state_total_seasonal_avg == IF ~all_null(tr) THEN mean(tr) ELSE Num(0, 1)
        state_avg_24hr == IF ~all_null(mm) THEN mean(mm) ELSE Num(0, 1)
        keys == sorted_texts(Col(d, "District"))
        group_mean(g) ==
            mean(Pick(mm, Filter([r \in 1..n |-> r],
                                 { r \in 1..n : Col(d, "District")[r].s = keys[g] })))
        means == [g \in 1..Len(keys) |-> group_mean(g)]
        highest_taluka_row ==
            IF ~all_null(mm) THEN RowDict(d, idxmax(mm), Range(d.cols))
            ELSE [Taluka |-> Str("N/A"), Total_mm |-> Num(0, 1), District |-> Str("N/A")]
        highest_district_row ==
            IF ~all_null(mm)
            THEN [District |-> Str(keys[sort_desc(means)[1]]), Total_mm |-> means[sort_desc(means)[1]]]
            ELSE [District |-> Str("N/A"), Total_mm |-> Num(0, 1)]
        num_talukas_with_rain_today ==
            Cardinality({ r \in 1..n : IsNum(mm[r]) /\ Lt(Num(0, 1), mm[r]) })
        df_plot_daily ==
            SetCol(d, "Rainfall_Category", [r \in 1..n |-> Str(classify_rainfall(mm[r]))])
        order == sort_desc(mm)
        progress == Num(100 * state_total_seasonal_avg.n,
                        total_seasonal_avg_state * state_total_seasonal_avg.d)
    IN [ metrics |->
           [ state_total_seasonal_avg |-> round1(state_total_seasonal_avg),
             state_avg_24hr |-> round1(state_avg_24hr),
             highest_taluka |-> highest_taluka_row,
             highest_district |-> highest_district_row,
             total_talukas_with_rain |-> num_talukas_with_rain_today,
             total_talukas_gujarat |-> TOTAL_TALUKAS_GUJARAT,
             state_rainfall_progress_percentage |-> round1(progress) ],
         choropleth_data_taluka |->
           [r \in 1..n |-> RowDict(df_plot_daily, r, {"Taluka", "Total_mm", "District"})],
         choropleth_data_district |->
           [g \in 1..Len(keys) |->
              [District |-> Str(keys[g]), District_Avg_Rain_Last_24_Hrs |-> means[g]]],
         top_10_talukas |->
           LET kept == head(Filter(order, Valid(mm)), TopRows)
           IN [i \in 1..Len(kept) |-> RowDict(df_plot_daily, kept[i], Range(df_plot_daily.cols))],
         daily_table |->
           [i \in 1..n |->
              RowDict(df_plot_daily, order[i],
                      {"District", "Taluka", "Total_mm", "Total_Rainfall", "Percent_Against_Avg"})] ]

\* process_daily_data, statement by statement.  Every assignment up to the
\* district clean-up is made on the table object the caller passed in.
process_daily_data(t) ==
    LET a == correct_taluka_names(t)
        b == IF HasCol(a.df, "Rain_Last_24_Hrs")
             THEN Rename(a.df, "Rain_Last_24_Hrs", "Total_mm") ELSE a.df
        absent == { i \in 1..Len(required_cols) : ~HasCol(b, required_cols[i]) }
        first_absent == CHOOSE i \in absent : \A j \in absent : i <= j
        c == IF ~HasCol(b, "Total_Rainfall")
             THEN SetCol(b, "Total_Rainfall", times_1_5(Col(b, "Total_mm"))) ELSE b
        e == IF ~HasCol(c, "Percent_Against_Avg")
             THEN SetCol(c, "Percent_Against_Avg", percent_of_700(Col(c, "Total_Rainfall"))) ELSE c
        f == coerce(coerce(coerce(e, "Total_mm"), "Total_Rainfall"), "Percent_Against_Avg")
        g == correct_district_names(f).df
        h == SetCol(g, "District", [r \in 1..Len(g.rows) |-> str_strip(Col(g, "District")[r])])
    IN IF a.exc # "" THEN [exc |-> a.exc, value |-> NoValue, df |-> a.df]
       ELSE IF absent # {}
       THEN [exc |-> "", value |-> [error |-> required_cols[first_absent]], df |-> b]
       ELSE IF ~HasCol(b, "Total_Rainfall") /\ HasText(Col(b, "Total_mm"))
       THEN [exc |-> "TypeError", value |-> NoValue, df |-> b]
       ELSE IF ~HasCol(c, "Percent_Against_Avg") /\ HasText(Col(c, "Total_Rainfall"))
       THEN [exc |-> "TypeError", value |-> NoValue, df |-> c]
       ELSE [exc |-> "", value |-> daily_output(h), df |-> h]

----------------------------------------------------------------------------
(* Hourly processor *)

time_slot_order ==
    << "06TO08", "08TO10", "10TO12", "12TO14", "14TO16", "16TO18",
       "18TO20", "20TO22", "22TO24", "24TO02", "02TO04", "04TO06" >>

\* the labels are written with an ASCII hyphen here
slot_labels ==
    ("06TO08" :> "6-8 AM") @@ ("08TO10" :> "8-10 AM") @@ ("10TO12" :> "10-12 AM")
    @@ ("12TO14" :> "12-2 PM") @@ ("14TO16" :> "2-4 PM") @@ ("16TO18" :> "4-6 PM")
    @@ ("18TO20" :> "6-8 PM") @@ ("20TO22" :> "8-10 PM") @@ ("22TO24" :> "10-12 PM")
    @@ ("24TO02" :> "12-2 AM") @@ ("02TO04" :> "2-4 AM") @@ ("04TO06" :> "4-6 AM")

\* "TO" in col, over the column names of the model
contains_TO(col) == col \in Range(time_slot_order) \cup {"TOWN"}

\* df.columns = df.columns.str.strip()
strip_columns(t) == [t EXCEPT !.cols = [i \in 1..Len(t.cols) |-> strip(t.cols[i])]]

\* existing_order taken in the order of the table's columns
existing_order_as_input(t) ==
    Filter(t.cols, Range(time_slot_order))

\* existing_order: the canonical slots that are time-slot columns of t (every
\* column of the model has dtype int64, float64 or object)
existing_order(t) ==
    LET time_slot_columns == { c \in Range(t.cols) : contains_TO(c) }
    IN Filter(time_slot_order, time_slot_columns)

RECURSIVE coerce_all(_, _)
coerce_all(t, cs) == IF Len(cs) = 0 THEN t ELSE coerce_all(coerce(t, cs[1]), Tail(cs))

\* row_sums without skipping: a missing cell makes the row's sum missing
row_sums_no_skip(t, cs) ==
    [r \in 1..Len(t.rows) |->
        IF \E i \in 1..Len(cs) : ~IsNum(Col(t, cs[i])[r]) THEN NaN
        ELSE SumTo([i \in 1..Len(cs) |-> Col(t, cs[i])[r]], Len(cs))]

\* df[cs].sum(axis=1): per row, the sum of the numeric cells of the columns cs
row_sums(t, cs) ==
    [r \in 1..Len(t.rows) |-> SumTo([i \in 1..Len(cs) |-> Col(t, cs[i])[r]], Len(cs))]

\* the columns of the long form
LongColumns ==
    { "District", "Taluka", "Total_mm", "Time Slot", "Rainfall (mm)", "Time Slot Label" }

\* df.melt(...).dropna(...) with the label column: slot by slot in the order
\* of cs, row by row, the cells that are not missing
RECURSIVE melt(_, _)
melt(t, cs) ==
    IF Len(cs) = 0 THEN <<>>
    ELSE LET vals == Col(t, cs[1])
             rs == Filter([r \in 1..Len(t.rows) |-> r], { r \in 1..Len(t.rows) : ~isna(vals[r]) })
         IN [i \in 1..Len(rs) |->
                [c \in LongColumns |->
                    CASE c = "District" -> Col(t, "District")[rs[i]]
                      [] c = "Taluka" -> Col(t, "Taluka")[rs[i]]
                      [] c = "Total_mm" -> Col(t, "Total_mm")[rs[i]]
                      [] c = "Time Slot" -> Str(cs[1])
                      [] c = "Rainfall (mm)" -> vals[rs[i]]
                      [] c = "Time Slot Label" -> Str(slot_labels[cs[1]])]]
            \o melt(t, Tail(cs))

\* the output dict built from the prepared table d and its slots (lines
\* 215-232); order is not empty
hourly_output(d, order, df_long) ==
    LET n == Len(d.rows)
        last == order[Len(order)]
        top_taluka_row ==
            IF n > 0 THEN RowDict(d, sort_desc(Col(d, "Total_mm"))[1], Range(d.cols))
            ELSE [Taluka |-> Str("N/A"), Total_mm |-> Num(0, 1)]
        df_latest_slot ==
            Pick(df_long, Filter([i \in 1..Len(df_long) |-> i],
                                 { i \in 1..Len(df_long) : df_long[i]["Time Slot"] = Str(last) }))
        latest_vals == [i \in 1..Len(df_latest_slot) |-> df_latest_slot[i]["Rainfall (mm)"]]
        top_latest ==
            IF Len(df_latest_slot) > 0 THEN df_latest_slot[sort_desc(latest_vals)[1]]
            ELSE [c \in {"Taluka", "Rainfall (mm)"} |->
                    IF c = "Taluka" THEN Str("N/A") ELSE Num(0, 1)]
        num_talukas_with_rain_hourly ==
            Cardinality({ r \in 1..n : Lt(Num(0, 1), Col(d, "Total_mm")[r]) })
    IN [ metrics |->
           [ latest_slot_label |-> slot_labels[last],
             total_talukas_with_rain |-> num_talukas_with_rain_hourly,
             top_taluka_total_rainfall |-> top_taluka_row,
             top_latest_rainfall |-> top_latest ],
         long_data |-> df_long,
         available_talukas |->
           sorted_texts([i \in 1..Len(df_long) |-> df_long[i]["Taluka"]]) ]

\* process_hourly_data, statement by statement; the table is changed in
\* place up to the Total_mm assignment.
process_hourly_data(t) ==
    LET a == correct_taluka_names(t)
        b == strip_columns(a.df)
        order == existing_order(b)
        c == coerce_all(b, order)
        d == SetCol(c, "Total_mm", row_sums(c, order))
    IN IF a.exc # "" THEN [exc |-> a.exc, value |-> NoValue, df |-> a.df]
       ELSE IF ~HasCol(d, "District") THEN [exc |-> "KeyError", value |-> NoValue, df |-> d]
       ELSE IF Len(order) = 0 THEN [exc |-> "IndexError", value |-> NoValue, df |-> d]
       ELSE [exc |-> "", value |-> hourly_output(d, order, melt(d, order)), df |-> d]

----------------------------------------------------------------------------
(* Spreadsheet loading and the JSON endpoints *)

\* load_sheet_data: ws is what the spreadsheet client yields, [found, table];
\* every failure (no client, no spreadsheet, no tab, any exception) gives an
\* empty table.
load_sheet_data(ws) ==
    IF ~ws.found THEN EmptyFrame
    ELSE LET a == strip_columns(ws.table)
             b == Rename(Rename(a, "DISTRICT", "District"), "TALUKA", "Taluka")
         IN IF HasCol(a, "TOTAL") THEN Rename(b, "TOTAL", "Total_mm") ELSE b

\* datetime.strptime(date_str, '%Y-%m-%d') over the dates of the model, with
\* the day before each valid date; "" stands for an absent parameter, which
\* defaults to today's date.
PreviousDay == ("" :> "yesterday") @@ ("2024-01-01" :> "2023-12-31")

date_parses(date_str) == date_str \in DOMAIN PreviousDay

\* the outcome handed on when the processor was not called
NotCalled == [exc |-> "", value |-> NoValue, df |-> EmptyFrame]

\* the try block of get_daily_data once the table is loaded: out is the
\* outcome of process_daily_data(loaded), taken only when it is called
daily_response(date_str, loaded, out) ==
    IF ~date_parses(date_str)
    THEN [status |-> 400, body |-> [error |-> "Invalid date format"], out |-> NotCalled]
    ELSE IF empty(loaded)
    THEN [status |-> 404, body |-> [error |-> "Daily data not available"], out |-> NotCalled]
    ELSE IF out.exc # ""
    THEN [status |-> 500, body |-> [error |-> out.exc], out |-> out]
    ELSE [status |-> 200,
          body |-> [key \in DOMAIN out.value \cup {"title"} |->
                      IF key = "title" THEN <<PreviousDay[date_str], date_str>>
                      ELSE out.value[key]],
          out |-> out]

\* get_daily_data: [status, body, out], out being the processor's outcome
\* with the table it was handed
get_daily_data(date_str, ws) ==
    daily_response(date_str, load_sheet_data(ws), process_daily_data(load_sheet_data(ws)))

hourly_response(date_str, loaded, out) ==
    IF ~date_parses(date_str)
    THEN [status |-> 400, body |-> [error |-> "Invalid date format"], out |-> NotCalled]
    ELSE IF empty(loaded)
    THEN [status |-> 404, body |-> [error |-> "Hourly data not available"], out |-> NotCalled]
    ELSE IF out.exc # ""
    THEN [status |-> 500, body |-> [error |-> out.exc], out |-> out]
    ELSE [status |-> 200, body |-> out.value, out |-> out]

get_hourly_data(date_str, ws) ==
    hourly_response(date_str, load_sheet_data(ws), process_hourly_data(load_sheet_data(ws)))

----------------------------------------------------------------------------
(* Inputs *)

MaxRows == 2

HttpRows == 1

\* rainfall amounts in hundredths of a millimetre around every bound of the
\* classifier, below zero and far above the last bound, and the missing value
RainBounds == { 0, 240, 750, 3550, 6440, 12440, 24440, 35000 }

RainInputs ==
    { Num(b + e, 100) : b \in RainBounds, e \in -6..6 }
    \cup { Num(k, 100) : k \in {-100000, -500, 1000000} }
    \cup { NaN, Str("bad") }

NamePairs == { <<"Kachchh", "Morbi">>, <<"Kutch", "Anjar">>, <<"Kachchh ", "Anjar">> }

DailyCells == { Num(0, 1), Num(10, 1), Str("bad"), Str("") }

HourlyCells == { Num(5, 1), Str("7"), Str("bad") }

\* which of District / Taluka / the total column a daily table has, and the
\* state of its two optional columns
DailyLayouts ==
    { l \in [district : BOOLEAN, taluka : BOOLEAN,
             total : {"", "Total_mm", "Rain_Last_24_Hrs"},
             rainfall : {"absent", "numeric", "text"}, percent : BOOLEAN] :
        (~l.district \/ ~l.taluka \/ l.total = "") => (l.rainfall = "absent" /\ ~l.percent) }

Opt(present, x) == IF present THEN <<x>> ELSE <<>>

\* the daily table of layout l whose row r has names names[r] and total
\* cell cells[r]
DailyTable(l, names, cells) ==
    [ cols |-> Opt(l.district, "District") \o Opt(l.taluka, "Taluka")
               \o Opt(l.total # "", l.total)
               \o Opt(l.rainfall # "absent", "Total_Rainfall")
               \o Opt(l.percent, "Percent_Against_Avg"),
      rows |-> [r \in 1..Len(names) |->
                  Opt(l.district, Str(names[r][1])) \o Opt(l.taluka, Str(names[r][2]))
                  \o Opt(l.total # "", cells[r])
                  \o Opt(l.rainfall # "absent",
                         IF l.rainfall = "text" /\ r = 1 THEN Str("bad") ELSE Num(15, 1))
                  \o Opt(l.percent, Num(2, 1))] ]

\* the same table as the worksheet stores it: headers as processed, or in
\* the upper-case spelling that load_sheet_data renames
Worksheet(t, style) ==
    IF style = "upper"
    THEN Rename(Rename(Rename(t, "District", "DISTRICT"), "Taluka", "TALUKA"), "Total_mm", "TOTAL")
    ELSE t

\* the columns an hourly table has besides District and Taluka, in order
SlotLayouts ==
    { <<>>, <<"TOWN">>, <<"08TO10">>, <<"06TO08 ", "22TO24">>,
      <<"04TO06", "08TO10">>, <<"08TO10", "04TO06">>, <<"24TO02", "Total_mm">> }

HourlyLayouts ==
    { l \in [district : BOOLEAN, taluka : {"", "Taluka", " Taluka"}, slots : SlotLayouts] :
        (~l.district \/ l.taluka # "Taluka") => l.slots = <<"08TO10">> }

HourlyNames == { <<"Kachchh", "Morbi">>, <<"Kutch", "Anjar">> }

\* the hourly table of layout l whose row r has names names[r] and cells
\* cells[r] under the columns of l.slots
HourlyTable(l, names, cells) ==
    [ cols |-> Opt(l.district, "District") \o Opt(l.taluka # "", l.taluka) \o l.slots,
      rows |-> [r \in 1..Len(names) |->
                  Opt(l.district, Str(names[r][1])) \o Opt(l.taluka # "", Str(names[r][2]))
                  \o cells[r]] ]

DateInputs == { "", "2024-01-01", "2024-13-45" }

----------------------------------------------------------------------------
(* The state machine: one call at a time.  op names the operation that     *)
(* ran, arg its input as the caller passed it, df the caller's table after *)
(* the call, ret the outcome [exc, value], resp the HTTP response.         *)

NoResp == [status |-> 0, body |-> NoValue]

NoRet == [exc |-> "", value |-> NoValue]

Init ==
    /\ pc = "idle"
    /\ op = "none"
    /\ arg = NoValue
    /\ df = EmptyFrame
    /\ ret = NoRet
    /\ resp = NoResp

CallClassify ==
    /\ pc = "idle"
    /\ \E r \in RainInputs :
          LET c == classify_rainfall(r)
          IN /\ arg' = r
             /\ ret' = IF c = "TypeError" THEN [exc |-> c, value |-> NoValue]
                       ELSE [exc |-> "", value |-> c]
    /\ pc' = "done"
    /\ op' = "classify"
    /\ UNCHANGED <<df, resp>>

CallDaily ==
    /\ pc = "idle"
    /\ \E l \in DailyLayouts, n \in 1..MaxRows :
          \E names \in [1..n -> NamePairs], cells \in [1..n -> DailyCells] :
             \E out \in {process_daily_data(DailyTable(l, names, cells))} :
                /\ arg' = DailyTable(l, names, cells)
                /\ df' = out.df
                /\ ret' = [exc |-> out.exc, value |-> out.value]
    /\ pc' = "done"
    /\ op' = "daily"
    /\ UNCHANGED resp

CallHourly ==
    /\ pc = "idle"
    /\ \E l \in HourlyLayouts, n \in 1..MaxRows :
          \E names \in [1..n -> HourlyNames],
             cells \in [1..n -> [1..Len(l.slots) -> HourlyCells]] :
             \E out \in {process_hourly_data(HourlyTable(l, names, cells))} :
                /\ arg' = HourlyTable(l, names, cells)
                /\ df' = out.df
                /\ ret' = [exc |-> out.exc, value |-> out.value]
    /\ pc' = "done"
    /\ op' = "hourly"
    /\ UNCHANGED resp

GetDailyData ==
    /\ pc = "idle"
    /\ \E date \in DateInputs, found \in BOOLEAN, style \in {"plain", "upper"},
          l \in DailyLayouts, n \in 1..HttpRows :
          \E names \in [1..n -> NamePairs], cells \in [1..n -> DailyCells] :
             \E ws \in {[found |-> found, table |-> Worksheet(DailyTable(l, names, cells), style)]} :
             \E r \in {get_daily_data(date, ws)} :
                /\ arg' = [date |-> date, ws |-> ws]
                /\ df' = r.out.df
                /\ ret' = [exc |-> r.out.exc, value |-> r.out.value]
                /\ resp' = [status |-> r.status, body |-> r.body]
    /\ pc' = "done"
    /\ op' = "get_daily_data"

GetHourlyData ==
    /\ pc = "idle"
    /\ \E date \in DateInputs, found \in BOOLEAN, style \in {"plain", "upper"},
          l \in HourlyLayouts, n \in 1..HttpRows :
          \E names \in [1..n -> HourlyNames],
             cells \in [1..n -> [1..Len(l.slots) -> HourlyCells]] :
             \E ws \in {[found |-> found, table |-> Worksheet(HourlyTable(l, names, cells), style)]} :
             \E r \in {get_hourly_data(date, ws)} :
                /\ arg' = [date |-> date, ws |-> ws]
                /\ df' = r.out.df
                /\ ret' = [exc |-> r.out.exc, value |-> r.out.value]
                /\ resp' = [status |-> r.status, body |-> r.body]
    /\ pc' = "done"
    /\ op' = "get_hourly_data"

\* the call is over; nothing of it is kept for the next one
Return ==
    /\ pc = "done"
    /\ pc' = "idle"
    /\ op' = "none"
    /\ arg' = NoValue
    /\ df' = EmptyFrame
    /\ ret' = NoRet
    /\ resp' = NoResp

Next == CallClassify \/ CallDaily \/ CallHourly \/ GetDailyData \/ GetHourlyData \/ Return

Spec == Init /\ [][Next]_vars

NextClassify == CallClassify \/ Return

SpecClassify == Init /\ [][NextClassify]_vars

NextDaily == CallDaily \/ Return

SpecDaily == Init /\ [][NextDaily]_vars

NextHourly == CallHourly \/ Return

SpecHourly == Init /\ [][NextHourly]_vars

NextHttp == GetDailyData \/ GetHourlyData \/ Return

SpecHttp == Init /\ [][NextHttp]_vars

----------------------------------------------------------------------------
(* Properties of the rainfall classifier *)

\* the inclusive upper bounds of the rule, in order
RuleBounds ==
    << Num(0, 1), Num(24, 10), Num(75, 10), Num(355, 10),
       Num(644, 10), Num(1244, 10), Num(2444, 10), Num(350, 1) >>

CategoryRank(c) == CHOOSE i \in 1..Len(ordered_categories) : ordered_categories[i] = c

\* the category whose band (previous bound, bound] holds r, "Exceptional"
\* above the last bound
BandOf(r) == ordered_categories[1 + Cardinality({ i \in 1..Len(RuleBounds) : Lt(RuleBounds[i], r) })]

NonNegative(r) == IsNum(r) /\ r.n >= 0

\* C1: a missing amount is No Rain, an amount r >= 0 gets the category of
\* the band (lower, upper] that holds it, and the category never decreases
\* when the amount grows.
C1_ClassifyByBand ==
    (pc = "done" /\ op = "classify" /\ (isna(arg) \/ NonNegative(arg))) =>
        /\ ret.exc = ""
        /\ ret.value = IF isna(arg) THEN "No Rain" ELSE BandOf(arg)
        /\ \A r2 \in RainInputs :
              (NonNegative(arg) /\ NonNegative(r2) /\ Le(arg, r2)) =>
                 CategoryRank(ret.value) <= CategoryRank(classify_rainfall(r2))

\* an amount exactly on the 2.4 bound was classified, and one just above it
C1_Witness ==
    /\ pc = "done" /\ op = "classify"
    /\ arg = Num(240, 100)
    /\ ret.value = "Very Light"
    /\ classify_rainfall(Num(241, 100)) = "Light"

\* C9: a negative amount gets the category of the first bound of the rule
\* that is >= the amount, which is the bound 0, No Rain.
C9_NegativeIsNoRain ==
    (pc = "done" /\ op = "classify" /\ IsNum(arg) /\ arg.n < 0) =>
        /\ ret.exc = ""
        /\ LET first == CHOOSE i \in 1..Len(RuleBounds) :
                           /\ Le(arg, RuleBounds[i])
                           /\ \A j \in 1..(i - 1) : ~Le(arg, RuleBounds[j])
           IN ret.value = ordered_categories[first]
        /\ ret.value = "No Rain"

----------------------------------------------------------------------------
(* Properties of the daily processor and its endpoint *)

\* the required columns the caller's table lacks (the total may come under
\* either of its two names)
AbsentRequired(t) ==
    { c \in {"District", "Taluka"} : ~HasCol(t, c) }
    \cup (IF HasCol(t, "Total_mm") \/ HasCol(t, "Rain_Last_24_Hrs") THEN {} ELSE {"Total_mm"})

IsErrorObject(v) == "error" \in DOMAIN v

\* C2: when a required column is absent the call returns an error object
\* naming an absent column and does not raise.
C2_MissingColumnIsErrorObject ==
    (pc = "done" /\ op = "daily" /\ AbsentRequired(arg) # {}) =>
        /\ ret.exc = ""
        /\ IsErrorObject(ret.value)
        /\ ret.value.error \in AbsentRequired(arg)

\* C3: a 200 response carries metrics and no error field; a body with an
\* error field has status 400, 404 or 500.
C3_ErrorsNeverStatus200 ==
    (pc = "done" /\ op = "get_daily_data") =>
        /\ resp.status = 200 =>
              ("metrics" \in DOMAIN resp.body /\ ~IsErrorObject(resp.body))
        /\ resp.status # 200 =>
              (IsErrorObject(resp.body) /\ resp.status \in {400, 404, 500})

\* a cell that pd.to_numeric cannot read as a number
InvalidNumber(c) == IsStr(c) /\ c.s \notin DOMAIN NumericText

\* C4: with District, Taluka and Total_mm present, an invalid Total_mm cell
\* becomes a missing value and the call does not raise, with or without the
\* two derived columns in the input.
C4_InvalidTotalBecomesMissing ==
    (/\ pc = "done" /\ op = "daily"
     /\ HasCol(arg, "District") /\ HasCol(arg, "Taluka") /\ HasCol(arg, "Total_mm")
     /\ \E r \in 1..Len(arg.rows) : InvalidNumber(Col(arg, "Total_mm")[r])) =>
        /\ ret.exc = ""
        /\ \A r \in 1..Len(arg.rows) :
              InvalidNumber(Col(arg, "Total_mm")[r]) => isna(Col(df, "Total_mm")[r])

----------------------------------------------------------------------------
(* Properties of name normalization and of the caller's table *)

Canonical(rec) ==
    /\ ("District" \in DOMAIN rec) => rec["District"].s \notin DOMAIN district_name_mapping
    /\ ("Taluka" \in DOMAIN rec) => rec["Taluka"].s \notin DOMAIN taluka_name_mapping

AllCanonical(recs) == \A i \in 1..Len(recs) : Canonical(recs[i])

\* C5: no record either processor returns carries a District or Taluka that
\* is a key of its correction table.
C5_OutputNamesCanonical ==
    /\ (pc = "done" /\ op = "daily" /\ ret.exc = "" /\ ~IsErrorObject(ret.value)) =>
          /\ AllCanonical(ret.value.choropleth_data_taluka)
          /\ AllCanonical(ret.value.choropleth_data_district)
          /\ AllCanonical(ret.value.top_10_talukas)
          /\ AllCanonical(ret.value.daily_table)
          /\ Canonical(ret.value.metrics.highest_taluka)
          /\ Canonical(ret.value.metrics.highest_district)
    /\ (pc = "done" /\ op = "hourly" /\ ret.exc = "") =>
          /\ AllCanonical(ret.value.long_data)
          /\ \A i \in 1..Len(ret.value.available_talukas) :
                ret.value.available_talukas[i] \notin DOMAIN taluka_name_mapping
          /\ Canonical(ret.value.metrics.top_taluka_total_rainfall)
          /\ Canonical(ret.value.metrics.top_latest_rainfall)

\* C8: after a call of either processor the caller's table is what it was
\* before the call.
C8_InputTableUnchanged ==
    (pc = "done" /\ op \in {"daily", "hourly"}) => df = arg

----------------------------------------------------------------------------
(* Properties of the hourly processor *)

\* the canonical slots the caller's table has a column for
PresentSlots(t) ==
    { s \in Range(time_slot_order) : \E i \in 1..Len(t.cols) : strip(t.cols[i]) = s }

\* the cell of row r under slot s
SlotCell(t, r, s) == t.rows[r][CHOOSE i \in 1..Len(t.cols) : strip(t.cols[i]) = s]

ValidNumber(c) == IsNum(c) \/ (IsStr(c) /\ c.s \in DOMAIN NumericText)

NumberOf(c) == IF IsNum(c) THEN c ELSE NumericText[c.s]

Same(a, b) == IsNum(a) /\ IsNum(b) /\ a.n * b.d = b.n * a.d

RECURSIVE SlotTotal(_, _, _)
\* the sum of the valid cells of row r over the slots S
SlotTotal(t, r, S) ==
    IF S = {} THEN Num(0, 1)
    ELSE LET s == CHOOSE x \in S : TRUE
             rest == SlotTotal(t, r, S \ {s})
         IN IF ValidNumber(SlotCell(t, r, s)) THEN Add(rest, NumberOf(SlotCell(t, r, s)))
            ELSE rest

HourlyInput(t) == HasCol(t, "District") /\ HasCol(t, "Taluka") /\ PresentSlots(t) # {}

\* the records of long_data for slot s, in order
SlotRecords(long, s) ==
    Pick(long, Filter([i \in 1..Len(long) |-> i],
                      { i \in 1..Len(long) : long[i]["Time Slot"] = Str(s) }))

\* the rows whose cell under slot s is a valid number, in order
ValidRows(t, s) ==
    Filter([r \in 1..Len(t.rows) |-> r],
           { r \in 1..Len(t.rows) : ValidNumber(SlotCell(t, r, s)) })

\* C6: each row's Total_mm is the sum of its valid slot cells, and long_data
\* has one record per (row, slot) pair with a valid cell and none for any
\* other pair.
C6_TotalsAndLongForm ==
    (pc = "done" /\ op = "hourly" /\ HourlyInput(arg)) =>
        /\ ret.exc = ""
        /\ \A r \in 1..Len(arg.rows) :
              Same(Col(df, "Total_mm")[r], SlotTotal(arg, r, PresentSlots(arg)))
        /\ \A i \in 1..Len(ret.value.long_data) :
              ret.value.long_data[i]["Time Slot"].s \in PresentSlots(arg)
        /\ \A s \in PresentSlots(arg) :
              LET recs == SlotRecords(ret.value.long_data, s)
                  rows == ValidRows(arg, s)
              IN /\ Len(recs) = Len(rows)
                 /\ \A i \in 1..Len(rows) :
                       /\ Same(recs[i]["Rainfall (mm)"], NumberOf(SlotCell(arg, rows[i], s)))
                       /\ Same(recs[i]["Total_mm"], SlotTotal(arg, rows[i], PresentSlots(arg)))

\* a table with a valid and an invalid cell was processed: the invalid cell
\* left no record and did not count in the total
C6_Witness ==
    /\ pc = "done" /\ op = "hourly" /\ ret.exc = ""
    /\ arg.cols = <<"District", "Taluka", "08TO10", "04TO06">>
    /\ Len(arg.rows) = 1
    /\ arg.rows[1][3] = Num(5, 1) /\ arg.rows[1][4] = Str("bad")
    /\ Len(ret.value.long_data) = 1
    /\ Col(df, "Total_mm")[1] = Num(5, 1)

\* the slot that comes last in the canonical order among those present
LastPresent(t) ==
    time_slot_order[CHOOSE i \in 1..Len(time_slot_order) :
                       /\ time_slot_order[i] \in PresentSlots(t)
                       /\ \A j \in (i + 1)..Len(time_slot_order) :
                             time_slot_order[j] \notin PresentSlots(t)]

\* C7: the latest slot is the last present slot in the canonical order,
\* whatever the column order, and top_latest_rainfall is a record of that
\* slot with the greatest value, or the fallback when the slot has no valid
\* value.
C7_LatestSlot ==
    (pc = "done" /\ op = "hourly" /\ HourlyInput(arg)) =>
        LET last == LastPresent(arg)
            top == ret.value.metrics.top_latest_rainfall
        IN /\ ret.exc = ""
           /\ ret.value.metrics.latest_slot_label = slot_labels[last]
           /\ IF ValidRows(arg, last) = <<>>
              THEN /\ DOMAIN top = {"Taluka", "Rainfall (mm)"}
                   /\ top["Taluka"] = Str("N/A")
                   /\ top["Rainfall (mm)"] = Num(0, 1)
              ELSE /\ top \in Range(ret.value.long_data)
                   /\ top["Time Slot"] = Str(last)
                   /\ \A r \in Range(ValidRows(arg, last)) :
                         Le(NumberOf(SlotCell(arg, r, last)), top["Rainfall (mm)"])

\* the columns came in the order 04TO06, 08TO10; the latest slot is 04TO06 and
\* the greater of its two values was picked
C7_Witness ==
    /\ pc = "done" /\ op = "hourly" /\ ret.exc = ""
    /\ arg.cols = <<"District", "Taluka", "04TO06", "08TO10">>
    /\ Len(arg.rows) = 2
    /\ arg.rows[1][3] = Num(5, 1) /\ arg.rows[2][3] = Str("7")
    /\ ret.value.metrics.latest_slot_label = "4-6 AM"
    /\ ret.value.metrics.top_latest_rainfall["Rainfall (mm)"] = Num(7, 1)

\* C10: with District and Taluka and any subset of the 12 slot columns, the
\* empty subset included, the call returns metrics, long_data and
\* available_talukas and does not raise.
C10_HourlyTotal ==
    (/\ pc = "done" /\ op = "hourly"
     /\ HasCol(arg, "District") /\ HasCol(arg, "Taluka") /\ Len(arg.rows) > 0
     /\ Range(arg.cols) \subseteq {"District", "Taluka"} \cup Range(time_slot_order)) =>
        /\ ret.exc = ""
        /\ {"metrics", "long_data", "available_talukas"} \subseteq DOMAIN ret.value

====
